---- MODULE Spec2Model ----
(***************************************************************************)
(* Sync-health measurement and repair of apps/hubble                       *)
(* (src/apps/hubble/src/allowedPeers.mainnet.ts): the range traversal of   *)
(* the sync trie, the span counter, the identifier collector, the          *)
(* diff-and-repair orchestrator and the session driver printSyncHealth.    *)
(***************************************************************************)
EXTENDS Integers, Sequences, FiniteSets, TLC

(***************************************************************************)
(* Bounds.  Timestamps are TimeLen digits in base MaxDigit + 1 (the hub    *)
(* uses 10 decimal digits); a sync id is a time prefix followed by one     *)
(* more byte in 0 .. MaxHash.                                              *)
(***************************************************************************)
TimeLen == 2
MaxDigit == 2
MaxHash == 1
MaxMsgs == 2
MaxFailures == 1

Base == MaxDigit + 1

RECURSIVE Pow(_, _)
Pow(b, n) == IF n = 0 THEN 1 ELSE b * Pow(b, n - 1)

MaxTime == Pow(Base, TimeLen) - 1

Max(a, b) == IF a >= b THEN a ELSE b

Min(a, b) == IF a <= b THEN a ELSE b

MaxByte == Max(MaxDigit, MaxHash)

(***************************************************************************)
(* HubResult: ok(value) or err(error).                                     *)
(***************************************************************************)
\* Body of the value of v, v being computed once: the result of an await.
Await(v, Body(_)) == CHOOSE r \in {Body(x) : x \in {v}} : TRUE

Ok(v) == [ok |-> TRUE, value |-> v, error |-> "none"]

Err(e) == [ok |-> FALSE, value |-> <<>>, error |-> e]

(***************************************************************************)
(* Time-prefix codec.                                                      *)
(***************************************************************************)
toFarcasterTime(time) ==
  IF time < 0 \/ time > MaxTime THEN Err("bad_request.invalid_param") ELSE Ok(time)

timestampToPaddedTimestampPrefix(t) ==
  [i \in 1 .. TimeLen |-> (t \div Pow(Base, TimeLen - i)) % Base]

getTimePrefix(time) ==
  LET farcasterTime == toFarcasterTime(time)
  IN IF farcasterTime.ok
       THEN Ok(timestampToPaddedTimestampPrefix(farcasterTime.value))
       ELSE farcasterTime

RECURSIVE CommonPrefixFrom(_, _, _)
CommonPrefixFrom(prefix1, prefix2, i) ==
  IF i > Min(Len(prefix1), Len(prefix2)) THEN <<>>
  ELSE IF prefix1[i] = prefix2[i]
    THEN <<prefix1[i]>> \o CommonPrefixFrom(prefix1, prefix2, i + 1)
    ELSE <<>>

getCommonPrefix(prefix1, prefix2) == CommonPrefixFrom(prefix1, prefix2, 1)

\* prefix1.toString().startsWith(prefix2.toString()); every byte of the model
\* is below 128, where the utf8 decoding is one character per byte.
isPrefix(prefix1, prefix2) ==
  /\ Len(prefix2) <= Len(prefix1)
  /\ SubSeq(prefix1, 1, Len(prefix2)) = prefix2

\* Buffer.compare: -1, 0 or 1 by byte-lexicographic order; a proper prefix
\* sorts first.
RECURSIVE CompareFrom(_, _, _)
CompareFrom(a, b, i) ==
  IF i > Len(a) /\ i > Len(b) THEN 0
  ELSE IF i > Len(a) THEN -1
  ELSE IF i > Len(b) THEN 1
  ELSE IF a[i] < b[i] THEN -1
  ELSE IF a[i] > b[i] THEN 1
  ELSE CompareFrom(a, b, i + 1)

BufferCompare(a, b) == CompareFrom(a, b, 1)

(***************************************************************************)
(* The sync trie of a replica holding the set S of sync ids: one node per  *)
(* prefix of a held id, the root always present.                           *)
(***************************************************************************)
Times == 0 .. MaxTime

SyncIds == {timestampToPaddedTimestampPrefix(t) \o <<h>> : t \in Times, h \in 0 .. MaxHash}

Under(S, prefix) == {s \in S : isPrefix(s, prefix)}

NodeExists(S, prefix) == prefix = <<>> \/ Under(S, prefix) # {}

RECURSIVE ChildrenFrom(_, _, _)
ChildrenFrom(S, prefix, b) ==
  IF b > MaxByte THEN <<>>
  ELSE (IF Under(S, Append(prefix, b)) # {}
          THEN <<[prefix |-> Append(prefix, b),
                  numMessages |-> Cardinality(Under(S, Append(prefix, b)))]>>
          ELSE <<>>)
       \o ChildrenFrom(S, prefix, b + 1)

toTrieNodeMetadataResponse(S, prefix) ==
  [prefix |-> prefix,
   numMessages |-> Cardinality(Under(S, prefix)),
   children |-> ChildrenFrom(S, prefix, 0)]

\* getMetadata of either retriever.  An operation fetches a prefix at most once
\* from getPrefixInfo and at most once from traverseRange; F holds the fetches,
\* <<caller, prefix>>, that the transport fails.  A fetch also fails when the
\* replica has no node at the prefix.
getMetadata(S, prefix, caller, F) ==
  IF <<caller, prefix>> \in F THEN Err("unavailable")
  ELSE IF ~NodeExists(S, prefix) THEN Err("unavailable")
  ELSE Ok(toTrieNodeMetadataResponse(S, prefix))

(***************************************************************************)
(* traverseRange.  The accumulator carries what the visitor f has been     *)
(* handed (visited), the prefixes fetched and those whose fetch failed.    *)
(***************************************************************************)
NoTrace == [n |-> 0, fetched |-> <<>>, failed |-> <<>>, visited |-> <<>>,
            ok |-> TRUE, error |-> "none"]

Visit(acc, child) == [acc EXCEPT !.visited = Append(@, child)]

RECURSIVE traverseRange(_, _, _, _, _, _)
RECURSIVE TraverseChildren(_, _, _, _, _, _, _)
traverseRange(S, node, startTimePrefix, stopTimePrefix, F, acc) ==
  Await(getMetadata(S, node.prefix, "traverseRange", F),
        LAMBDA metadata :
          LET acc1 == [acc EXCEPT
                         !.n = @ + 1,
                         !.fetched = Append(@, node.prefix),
                         !.failed = IF metadata.ok THEN @ ELSE Append(@, node.prefix)]
          IN IF ~metadata.ok
               THEN [acc1 EXCEPT !.ok = FALSE, !.error = metadata.error]
               ELSE [TraverseChildren(S, metadata.value.children, 1,
                                      startTimePrefix, stopTimePrefix, F, acc1)
                       EXCEPT !.ok = TRUE, !.error = "none"])

TraverseChildren(S, children, i, startTimePrefix, stopTimePrefix, F, acc) ==
  IF i > Len(children) THEN acc
  ELSE
    LET child == children[i]
        childValue == child.prefix
        acc2 ==
          IF BufferCompare(childValue, startTimePrefix) = 0
            THEN Visit(acc, child)
          ELSE IF isPrefix(startTimePrefix, childValue) \/ isPrefix(stopTimePrefix, childValue)
            THEN traverseRange(S, child, startTimePrefix, stopTimePrefix, F, acc)
          ELSE IF /\ BufferCompare(childValue, startTimePrefix) = 1
                  /\ BufferCompare(childValue, stopTimePrefix) = -1
            THEN Visit(acc, child)
          ELSE acc
    IN TraverseChildren(S, children, i + 1, startTimePrefix, stopTimePrefix, F, acc2)

getPrefixInfo(S, startTime, stopTime, F) ==
  LET startTimePrefix == getTimePrefix(startTime)
      stopTimePrefix == getTimePrefix(stopTime)
  IN IF ~startTimePrefix.ok
       THEN [ok |-> FALSE, error |-> startTimePrefix.error,
             value |-> [NoTrace EXCEPT !.ok = FALSE, !.error = startTimePrefix.error]]
     ELSE IF ~stopTimePrefix.ok
       THEN [ok |-> FALSE, error |-> stopTimePrefix.error,
             value |-> [NoTrace EXCEPT !.ok = FALSE, !.error = stopTimePrefix.error]]
     ELSE
       LET commonPrefix == getCommonPrefix(startTimePrefix.value, stopTimePrefix.value)
           commonPrefixMetadata == getMetadata(S, commonPrefix, "getPrefixInfo", F)
           trace == [NoTrace EXCEPT !.n = 1,
                       !.fetched = <<commonPrefix>>,
                       !.failed = IF commonPrefixMetadata.ok THEN <<>> ELSE <<commonPrefix>>]
       IN IF ~commonPrefixMetadata.ok
            THEN [ok |-> FALSE, error |-> commonPrefixMetadata.error,
                  value |-> [trace EXCEPT !.ok = FALSE, !.error = commonPrefixMetadata.error]]
            ELSE [ok |-> TRUE, error |-> "none", value |-> trace,
                  startTimePrefix |-> startTimePrefix.value,
                  stopTimePrefix |-> stopTimePrefix.value,
                  commonPrefixMetadata |-> commonPrefixMetadata.value]

\* getPrefixInfo followed by traverseRange rooted at the common-prefix node: the
\* part getNumMessagesInSpanOptimized and computeSyncIdsInSpan share.
TraverseSpan(S, startTime, stopTime, F) ==
  Await(getPrefixInfo(S, startTime, stopTime, F),
        LAMBDA prefixInfo :
          IF ~prefixInfo.ok THEN prefixInfo.value
          ELSE traverseRange(S, prefixInfo.commonPrefixMetadata,
                             prefixInfo.startTimePrefix, prefixInfo.stopTimePrefix,
                             F, prefixInfo.value))

RECURSIVE SumNumMessages(_, _)
SumNumMessages(nodes, i) ==
  IF i > Len(nodes) THEN 0 ELSE nodes[i].numMessages + SumNumMessages(nodes, i + 1)

getNumMessagesInSpanOptimized(S, startTime, stopTime, F) ==
  Await(TraverseSpan(S, startTime, stopTime, F),
        LAMBDA result :
          IF ~result.ok
            THEN [ok |-> FALSE, error |-> result.error, value |-> 0, trace |-> result]
            ELSE [ok |-> TRUE, error |-> "none",
                  value |-> SumNumMessages(result.visited, 1), trace |-> result])

\* getAllSyncIdsByPrefix of a replica: every held sync id under the prefix, or an
\* error when the transport fails the call.
RECURSIVE SetToSeq(_)
SetToSeq(S) ==
  IF S = {} THEN <<>>
  ELSE LET least == CHOOSE x \in S : \A y \in S : BufferCompare(x, y) <= 0
       IN <<least>> \o SetToSeq(S \ {least})

getAllSyncIdsByPrefix(S, prefix, n, G) ==
  IF n \in G THEN Err("unavailable") ELSE Ok(SetToSeq(Under(S, prefix)))

RECURSIVE CollectSyncIds(_, _, _, _)
CollectSyncIds(S, prefixes, i, G) ==
  IF i > Len(prefixes) THEN <<>>
  ELSE LET prefixSyncIds == getAllSyncIdsByPrefix(S, prefixes[i], i, G)
       IN (IF prefixSyncIds.ok THEN prefixSyncIds.value ELSE <<>>)
          \o CollectSyncIds(S, prefixes, i + 1, G)

computeSyncIdsInSpan(S, startTime, stopTime, F, G) ==
  Await(TraverseSpan(S, startTime, stopTime, F),
        LAMBDA result :
          LET prefixes == [i \in 1 .. Len(result.visited) |-> result.visited[i].prefix]
          IN IF ~result.ok
               THEN [ok |-> FALSE, error |-> result.error, value |-> <<>>,
                     trace |-> result, idFetches |-> 0, idFailures |-> 0]
               ELSE [ok |-> TRUE, error |-> "none",
                     value |-> CollectSyncIds(S, prefixes, 1, G), trace |-> result,
                     idFetches |-> Len(prefixes),
                     idFailures |-> Cardinality(G \cap (1 .. Len(prefixes)))])

(***************************************************************************)
(* Diff and repair.  A message is identified with its sync id.             *)
(***************************************************************************)
\* uniqueSyncIds, were it to compare the time prefixes only.
RECURSIVE uniqueSyncIds_ByTimePrefix(_, _)
uniqueSyncIds_ByTimePrefix(mySyncIds, otherSyncIds) ==
  IF mySyncIds = <<>> THEN <<>>
  ELSE LET syncId == Head(mySyncIds)
           found == \E k \in 1 .. Len(otherSyncIds) :
                      BufferCompare(SubSeq(syncId, 1, TimeLen),
                                    SubSeq(otherSyncIds[k], 1, TimeLen)) = 0
       IN (IF found THEN <<>> ELSE <<syncId>>)
          \o uniqueSyncIds_ByTimePrefix(Tail(mySyncIds), otherSyncIds)

RECURSIVE uniqueSyncIds(_, _)
uniqueSyncIds(mySyncIds, otherSyncIds) ==
  IF mySyncIds = <<>> THEN <<>>
  ELSE LET syncId == Head(mySyncIds)
           found == \E k \in 1 .. Len(otherSyncIds) :
                      BufferCompare(syncId, otherSyncIds[k]) = 0
       IN (IF found THEN <<>> ELSE <<syncId>>)
          \o uniqueSyncIds(Tail(mySyncIds), otherSyncIds)

\* getAllMessagesBySyncIds of a replica: the messages it holds among the ids
\* asked for, in their order.
RECURSIVE getAllMessagesBySyncIds(_, _)
getAllMessagesBySyncIds(S, syncIds) ==
  IF syncIds = <<>> THEN <<>>
  ELSE (IF Head(syncIds) \in S THEN <<Head(syncIds)>> ELSE <<>>)
       \o getAllMessagesBySyncIds(S, Tail(syncIds))

\* submitMessage, were the replica to keep the submitted message only.
submitMessage_Replaces(S, message, accept) ==
  [result |-> [id |-> message, ok |-> accept], held |-> {message}]

\* submitMessage to a replica: a held message is refused as a duplicate; another
\* one is merged when the replica accepts it.
submitMessage(S, message, accept) ==
  IF message \in S THEN [result |-> [id |-> message, ok |-> FALSE], held |-> S]
  ELSE IF accept THEN [result |-> [id |-> message, ok |-> TRUE], held |-> S \cup {message}]
  ELSE [result |-> [id |-> message, ok |-> FALSE], held |-> S]

(***************************************************************************)
(* SyncHealthMessageStats and the serialized Stats.                        *)
(***************************************************************************)
Abs(x) == IF x < 0 THEN -x ELSE x

computeDiff(stats) == Abs(stats.primaryNumMessages - stats.peerNumMessages)

\* A number of the program: a ratio of two integers, NaN or Infinity, and null
\* once written as JSON.
Number(kind, num, den) == [kind |-> kind, num |-> num, den |-> den]

\* The division of two numbers: 0 / 0 is NaN, another count over zero is
\* Infinity, any other quotient is kept as the ratio it is.
computeDiffPercentage(stats) ==
  IF stats.primaryNumMessages # 0
    THEN Number("ratio", computeDiff(stats), stats.primaryNumMessages)
  ELSE IF computeDiff(stats) = 0 THEN Number("NaN", 0, 0)
  ELSE Number("Infinity", 0, 0)

\* JSON.stringify of a number: NaN and Infinity are written as null.
JSONNumber(x) == IF x.kind \in {"NaN", "Infinity"} THEN Number("null", 0, 0) ELSE x

CountOk(results, ok) == Cardinality({k \in 1 .. Len(results) : results[k].ok = ok})

Stats(peer, stats, resultsUploadingToPeer, resultsUploadingToPrimary) ==
  [peer |-> peer, syncHealthMessageStats |-> stats,
   resultsUploadingToPeer |-> resultsUploadingToPeer,
   resultsUploadingToPrimary |-> resultsUploadingToPrimary]

serializedSummary(a) ==
  [peer |-> a.peer,
   primaryMessageCount |-> a.syncHealthMessageStats.primaryNumMessages,
   peerMessageCount |-> a.syncHealthMessageStats.peerNumMessages,
   diff |-> computeDiff(a.syncHealthMessageStats),
   diffPercentage |-> JSONNumber(computeDiffPercentage(a.syncHealthMessageStats)),
   numSuccessToPeer |-> CountOk(a.resultsUploadingToPeer, TRUE),
   numErrorToPeer |-> CountOk(a.resultsUploadingToPeer, FALSE),
   numSuccessToPrimary |-> CountOk(a.resultsUploadingToPrimary, TRUE),
   numErrorToPrimary |-> CountOk(a.resultsUploadingToPrimary, FALSE)]

(***************************************************************************)
(* The session: printSyncHealth against a primary and its sampled peers.   *)
(***************************************************************************)
VARIABLES
  pc,               \* where the session's single thread of control stands
  window,           \* <<startTime, stopTime>> once parsed
  peers,            \* pickPeers' sample: addresses, Undefined where none resolves
  idx,              \* position of the for loop in peers
  store,            \* the sync ids each replica holds
  log,              \* the outfile: the summaries appended so far
  primaryOpen,      \* primaryRpcClient is open
  openClients,      \* peer clients created and not closed: <<position, transport>>
  peerRpcClient,    \* the transport the loop body's variable refers to
  link,             \* the client the retriever holds reaches the peer
  waiting,          \* waitForReady callbacks not yet run: <<position, fails>>
  syncHealthStats,  \* computeSyncHealthMessageStats' result of this pass
  syncIds,          \* investigateDiff's identifier lists
  push,             \* tryPushingMissingMessages' locals
  results,          \* resultsPushingToPeer, resultsPushingToPrimary
  aggregateStats,   \* the Stats about to be written
  issued,           \* the payload fetches and submissions of this pass
  passes,           \* the positions of peers whose pass has begun, in order
  faults,           \* the remote calls and writes that have failed so far
  runs,             \* investigateDiff's returns so far, when it is run again
  trie,             \* a trie traversed on its own
  span              \* and the result of that traversal

svars == <<pc, window, peers, idx, store, log, primaryOpen, openClients, peerRpcClient,
           link, waiting, syncHealthStats, syncIds, push, results, aggregateStats,
           issued, passes, faults, runs>>

tvars == <<trie, span>>

vars == <<svars, tvars>>

connVars == <<primaryOpen, openClients, peerRpcClient, link, waiting>>

diffVars == <<syncIds, push, results>>

Primary == "primary"

PeerNodes == {"p1", "p2"}

Replicas == {Primary} \cup PeerNodes

Undefined == "undefined"

MaxNumPeers == 2

IdAt(time) == timestampToPaddedTimestampPrefix(time) \o <<0>>

\* The session's window [WinStart, WinStop) and the ids the replicas may hold:
\* one at the start of the window, two of one time inside it, one at its stop.
WinStart == Base - MaxDigit

MidTime == Pow(Base, TimeLen - 1)

WinStop == MaxDigit * Pow(Base, TimeLen - 1)

SessionWindows == {<<WinStart, WinStop>>}

InsideIds ==
  {IdAt(WinStart), IdAt(MidTime), timestampToPaddedTimestampPrefix(MidTime) \o <<MaxHash>>}

\* A session starts with ids of distinct times: the primary holds the id at the
\* stop and any of the others, the first peer any of the others, every further
\* peer none or all of them.
SessionIds == {IdAt(WinStart), IdAt(MidTime)}

Stores ==
  {st \in [Replicas -> SUBSET (SessionIds \cup {IdAt(WinStop)})] :
     /\ IdAt(WinStop) \in st[Primary]
     /\ \A p \in PeerNodes : IdAt(WinStop) \notin st[p]
     /\ \A p \in PeerNodes \ {"p1"} : st[p] \in {{}, SessionIds}}

\* pickPeers' sample: up to MaxNumPeers distinct contacts; a contact without a
\* resolvable rpc address gives Undefined.
Contacts == PeerNodes \cup {Undefined}

Samples ==
  {s \in UNION {[1 .. n -> Contacts] : n \in 0 .. MaxNumPeers} :
     \A i, j \in DOMAIN s : s[i] = s[j] => i = j}

NoStats == [ok |-> FALSE, error |-> "none"]

NoSyncIds == [primary |-> <<>>, peer |-> <<>>, onlyInPrimary |-> <<>>, onlyInPeer |-> <<>>,
              lost |-> FALSE]

NoPush == [dir |-> "none", messages |-> <<>>, k |-> 0, results |-> <<>>]

NoResults == [toPeer |-> <<>>, toPrimary |-> <<>>, status |-> "none"]

\* The calls of one investigateDiff: the directions tryPushingMissingMessages was
\* called for, the payload fetches, the submissions.
NoIssued == [pushes |-> <<>>, fetches |-> 0, submits |-> <<>>]

NoAggregate == [peer |-> Undefined]

PassIdle ==
  /\ syncHealthStats = NoStats
  /\ syncIds = NoSyncIds
  /\ push = NoPush
  /\ results = NoResults
  /\ aggregateStats = NoAggregate
  /\ issued = NoIssued

SessionIdle ==
  /\ pc = "idle" /\ window = <<0, 0>> /\ peers = <<>> /\ idx = 0
  /\ store = [r \in Replicas |-> {}] /\ log = <<>>
  /\ primaryOpen = FALSE /\ openClients = {} /\ peerRpcClient = "none"
  /\ link = FALSE /\ waiting = {} /\ passes = <<>> /\ faults = 0 /\ runs = <<>>
  /\ PassIdle

Init ==
  /\ pc = "parse" /\ window = <<0, 0>> /\ peers = <<>> /\ idx = 0
  /\ store \in Stores /\ log = <<>>
  /\ primaryOpen = FALSE /\ openClients = {} /\ peerRpcClient = "none"
  /\ link = FALSE /\ waiting = {} /\ passes = <<>> /\ faults = 0 /\ runs = <<>>
  /\ PassIdle
  /\ trie = {} /\ span = [op |-> "none"]

Peer == peers[idx]

startTime == window[1]

stopTime == window[2]

\* The fetches a traversal of [start, stop) can make: the common prefix from
\* getPrefixInfo, and from traverseRange the prefixes of either boundary.
PrefixesOf(prefix) == {SubSeq(prefix, 1, k) : k \in 0 .. Len(prefix)}

FetchPoints(start, stop) ==
  LET startTimePrefix == getTimePrefix(start)
      stopTimePrefix == getTimePrefix(stop)
  IN IF ~startTimePrefix.ok \/ ~stopTimePrefix.ok THEN {}
     ELSE ({"getPrefixInfo"}
             \X {getCommonPrefix(startTimePrefix.value, stopTimePrefix.value)})
          \cup ({"traverseRange"}
                  \X (PrefixesOf(startTimePrefix.value) \cup PrefixesOf(stopTimePrefix.value)))

\* The calls of getAllSyncIdsByPrefix of one collection, by position.
IdFetches == 1 .. MaxMsgs

\* The sets of at most budget calls among points.
RECURSIVE FailSets(_, _)
FailSets(points, budget) ==
  IF budget <= 0 THEN {{}}
  ELSE {{}} \cup {F \cup {p} : F \in FailSets(points, budget - 1), p \in points}

\* At most MaxFailures calls fail in one run, those against a peer whose client
\* never became ready apart: such a client fails every call.
Budget == MaxFailures - faults

Failures(reaches, points, budget) ==
  IF reaches THEN FailSets(points, budget) ELSE {points}

Spent(reaches, F) == IF reaches THEN Cardinality(F) ELSE 0

\* parseTime of both arguments, and the primary client's creation.
ParseTime ==
  /\ pc = "parse"
  /\ \/ /\ pc' = "exit"
        /\ UNCHANGED <<window, primaryOpen>>
     \/ /\ \E w \in SessionWindows : window' = w
        /\ primaryOpen' = TRUE
        /\ pc' = "waitPrimary"
  /\ UNCHANGED <<peers, idx, store, log, openClients, peerRpcClient, link, waiting,
                 syncHealthStats, diffVars, aggregateStats, issued, faults, runs, passes, tvars>>

\* The primary's waitForReady callback: it throws when the primary is not ready.
PrimaryReady ==
  /\ pc = "waitPrimary"
  /\ \E err \in BOOLEAN : pc' = IF err THEN "crashed" ELSE "pickPeers"
  /\ UNCHANGED <<window, peers, idx, store, log, connVars,
                 syncHealthStats, diffVars, aggregateStats, issued, faults, runs, passes, tvars>>

pickPeers ==
  /\ pc = "pickPeers"
  /\ \/ /\ pc' = "exit"
        /\ UNCHANGED <<peers, idx>>
     \/ /\ \E sample \in Samples : peers' = sample
        /\ idx' = 1
        /\ pc' = "loop"
  /\ UNCHANGED <<window, store, log, connVars,
                 syncHealthStats, diffVars, aggregateStats, issued, faults, runs, passes, tvars>>

\* The loop is over: primaryRpcClient.close().
ClosePrimary ==
  /\ pc = "loop"
  /\ idx > Len(peers)
  /\ primaryOpen' = FALSE
  /\ pc' = "done"
  /\ UNCHANGED <<window, peers, idx, store, log, openClients, peerRpcClient, link, waiting,
                 syncHealthStats, diffVars, aggregateStats, issued, faults, runs, passes, tvars>>

\* SkipPeer, were it to stay on the undefined entry.
SkipPeer_Stays ==
  /\ pc = "loop"
  /\ idx <= Len(peers)
  /\ Peer = Undefined
  /\ UNCHANGED vars

\* peer === undefined: continue.
SkipPeer ==
  /\ pc = "loop"
  /\ idx <= Len(peers)
  /\ Peer = Undefined
  /\ idx' = idx + 1
  /\ UNCHANGED <<pc, window, peers, store, log, connVars,
                 syncHealthStats, diffVars, aggregateStats, issued, faults, runs, passes, tvars>>

\* The first try block and the retriever's creation: the insecure client and its
\* waitForReady, or the SSL client when that raised.
Connect ==
  /\ pc = "loop"
  /\ idx <= Len(peers)
  /\ Peer # Undefined
  /\ \E raised \in BOOLEAN, reaches \in BOOLEAN :
       /\ peerRpcClient' = IF raised THEN "ssl" ELSE "insecure"
       /\ openClients' = openClients \cup {<<idx, peerRpcClient'>>}
       /\ waiting' = IF raised THEN waiting ELSE waiting \cup {<<idx, ~reaches>>}
       /\ link' = reaches
  /\ pc' = "measure"
  /\ passes' = Append(passes, idx)
  /\ UNCHANGED <<window, peers, idx, store, log, primaryOpen, syncHealthStats, diffVars,
                 aggregateStats, issued, faults, runs, tvars>>

\* A waitForReady callback of a peer client runs: on an error it creates the SSL
\* client and assigns it to its iteration's variable.
ReadyCallback ==
  /\ \E w \in waiting :
       /\ waiting' = waiting \ {w}
       /\ IF w[2]
            THEN /\ openClients' = openClients \cup {<<w[1], "ssl">>}
                 /\ peerRpcClient' =
                      IF w[1] = idx THEN "ssl" ELSE peerRpcClient
            ELSE UNCHANGED <<openClients, peerRpcClient>>
  /\ UNCHANGED <<pc, window, peers, idx, store, log, primaryOpen, link,
                 syncHealthStats, diffVars, aggregateStats, issued, faults, runs, passes, tvars>>

computeSyncHealthMessageStats(numMessagesPrimary, numMessagesPeer) ==
  IF ~numMessagesPrimary.ok THEN Err(numMessagesPrimary.error)
  ELSE IF ~numMessagesPeer.ok THEN Err(numMessagesPeer.error)
  ELSE Ok([primaryNumMessages |-> numMessagesPrimary.value,
           peerNumMessages |-> numMessagesPeer.value])

\* Every call chosen to fail was made.
Fetched(trace) ==
  {<<IF k = 1 THEN "getPrefixInfo" ELSE "traverseRange", trace.fetched[k]>> :
     k \in 1 .. Len(trace.fetched)}

Hit(F, trace) == F \subseteq Fetched(trace)

HitIds(G, calls) == G \subseteq 1 .. calls

\* EndPass, were a pass to end the whole loop.
EndPass_EndsLoop ==
  /\ pc' = "loop"
  /\ idx' = Len(peers) + 1
  /\ peerRpcClient' = "none"
  /\ link' = FALSE
  /\ syncHealthStats' = NoStats
  /\ syncIds' = NoSyncIds
  /\ push' = NoPush
  /\ results' = NoResults
  /\ aggregateStats' = NoAggregate
  /\ issued' = NoIssued

\* The loop body is left: its variables go out of scope.
EndPass ==
  /\ pc' = "loop"
  /\ idx' = idx + 1
  /\ peerRpcClient' = "none"
  /\ link' = FALSE
  /\ syncHealthStats' = NoStats
  /\ syncIds' = NoSyncIds
  /\ push' = NoPush
  /\ results' = NoResults
  /\ aggregateStats' = NoAggregate
  /\ issued' = NoIssued

\* MeasureHealth, were a zero score to start investigateDiff too.
MeasureHealth_AlwaysInvestigates ==
  /\ pc = "measure"
  /\ \E FPrimary \in FailSets(FetchPoints(startTime, stopTime), Budget) :
       \E FPeer \in Failures(link, FetchPoints(startTime, stopTime),
                              Budget - Cardinality(FPrimary)) :
         \E numMessagesPrimary \in
              {getNumMessagesInSpanOptimized(store[Primary], startTime, stopTime, FPrimary)},
            numMessagesPeer \in
              {getNumMessagesInSpanOptimized(store[Peer], startTime, stopTime, FPeer)} :
          \E measured \in
               {computeSyncHealthMessageStats(numMessagesPrimary, numMessagesPeer)} :
            /\ Hit(FPrimary, numMessagesPrimary.trace)
            /\ link => Hit(FPeer, numMessagesPeer.trace)
            /\ faults' = faults + Cardinality(FPrimary) + Spent(link, FPeer)
            /\ syncHealthStats' =
                 [measured EXCEPT !.error = IF measured.ok THEN "none" ELSE "unavailable"]
            /\ IF ~measured.ok
                 THEN /\ pc' = "close"
                      /\ UNCHANGED aggregateStats
               ELSE IF computeDiff(measured.value) >= 0
                 THEN /\ pc' = "idsPrimary"
                      /\ UNCHANGED aggregateStats
               ELSE /\ pc' = "persist"
                    /\ aggregateStats' = Stats(Peer, measured.value, <<>>, <<>>)
  /\ UNCHANGED <<window, peers, idx, store, log, connVars, diffVars, issued, runs, passes,
                 tvars>>

\* computeSyncHealthMessageStats and what the loop body does with its result: an
\* error ends the pass at close(), a zero score goes to the write with no
\* investigation results, another score starts investigateDiff.
MeasureHealth ==
  /\ pc = "measure"
  /\ \E FPrimary \in FailSets(FetchPoints(startTime, stopTime), Budget) :
       \E FPeer \in Failures(link, FetchPoints(startTime, stopTime),
                              Budget - Cardinality(FPrimary)) :
         \E numMessagesPrimary \in
              {getNumMessagesInSpanOptimized(store[Primary], startTime, stopTime, FPrimary)},
            numMessagesPeer \in
              {getNumMessagesInSpanOptimized(store[Peer], startTime, stopTime, FPeer)} :
          \E measured \in
               {computeSyncHealthMessageStats(numMessagesPrimary, numMessagesPeer)} :
            /\ Hit(FPrimary, numMessagesPrimary.trace)
            /\ link => Hit(FPeer, numMessagesPeer.trace)
            /\ faults' = faults + Cardinality(FPrimary) + Spent(link, FPeer)
            /\ syncHealthStats' =
                 [measured EXCEPT !.error = IF measured.ok THEN "none" ELSE "unavailable"]
            /\ IF ~measured.ok
                 THEN /\ pc' = "close"
                      /\ UNCHANGED aggregateStats
               ELSE IF computeDiff(measured.value) # 0
                 THEN /\ pc' = "idsPrimary"
                      /\ UNCHANGED aggregateStats
               ELSE /\ pc' = "persist"
                    /\ aggregateStats' = Stats(Peer, measured.value, <<>>, <<>>)
  /\ UNCHANGED <<window, peers, idx, store, log, connVars, diffVars, issued, runs, passes,
                 tvars>>

\* InvestigationFailed, were the pass to go to close() with nothing written.
InvestigationFailed_NoRecord ==
  /\ results' = [results EXCEPT !.status = "err"]
  /\ aggregateStats' = aggregateStats
  /\ pc' = "close"

\* investigateDiff returned an error: the stats are reported with no
\* investigation results.
InvestigationFailed ==
  /\ results' = [results EXCEPT !.status = "err"]
  /\ aggregateStats' = Stats(Peer, syncHealthStats.value, <<>>, <<>>)
  /\ pc' = "persist"

\* computeSyncIdsInSpan of the primary.
PrimarySyncIds ==
  /\ pc = "idsPrimary"
  /\ \E F \in FailSets(FetchPoints(startTime, stopTime), Budget) :
       \E G \in FailSets(IdFetches, Budget - Cardinality(F)) :
         \E primarySyncIds \in
              {computeSyncIdsInSpan(store[Primary], startTime, stopTime, F, G)} :
            /\ Hit(F, primarySyncIds.trace)
            /\ HitIds(G, primarySyncIds.idFetches)
            /\ faults' = faults + Cardinality(F) + Cardinality(G)
            /\ IF ~primarySyncIds.ok
                 THEN /\ InvestigationFailed
                      /\ UNCHANGED syncIds
                 ELSE /\ syncIds' = [syncIds EXCEPT
                                       !.primary = primarySyncIds.value,
                                       !.lost = primarySyncIds.trace.failed # <<>>
                                                \/ primarySyncIds.idFailures > 0]
                      /\ pc' = "idsPeer"
                      /\ UNCHANGED <<results, aggregateStats>>
  /\ UNCHANGED <<window, peers, idx, store, log, connVars, syncHealthStats, push, issued,
                 runs, passes, tvars>>

\* computeSyncIdsInSpan of the peer, then both uniqueSyncIds.
PeerSyncIds ==
  /\ pc = "idsPeer"
  /\ \E F \in Failures(link, FetchPoints(startTime, stopTime), Budget) :
       \E G \in Failures(link, IdFetches, Budget - Spent(link, F)) :
         \E peerSyncIds \in {computeSyncIdsInSpan(store[Peer], startTime, stopTime, F, G)} :
            /\ link => (Hit(F, peerSyncIds.trace) /\ HitIds(G, peerSyncIds.idFetches))
            /\ faults' = faults + Spent(link, F) + Spent(link, G)
            /\ IF ~peerSyncIds.ok
                 THEN /\ InvestigationFailed
                      /\ UNCHANGED <<syncIds, push>>
                 ELSE /\ syncIds' = [syncIds EXCEPT
                                       !.peer = peerSyncIds.value,
                                       !.lost = @ \/ peerSyncIds.trace.failed # <<>>
                                                  \/ peerSyncIds.idFailures > 0,
                                       !.onlyInPrimary =
                                          uniqueSyncIds(syncIds.primary, peerSyncIds.value),
                                       !.onlyInPeer =
                                          uniqueSyncIds(peerSyncIds.value, syncIds.primary)]
                      /\ push' = [NoPush EXCEPT !.dir = "toPeer"]
                      /\ pc' = "push"
                      /\ UNCHANGED <<results, aggregateStats>>
  /\ UNCHANGED <<window, peers, idx, store, log, connVars, syncHealthStats, issued,
                 runs, passes, tvars>>

\* tryPushingMissingMessages returned ok(res): for the push to the peer,
\* investigateDiff goes on to the push to the primary; for the push to the
\* primary it returns both result lists.
PushReturns(res) ==
  IF push.dir = "toPeer"
    THEN /\ results' = [results EXCEPT !.toPeer = res]
         /\ push' = [NoPush EXCEPT !.dir = "toPrimary"]
         /\ pc' = "push"
         /\ UNCHANGED aggregateStats
    ELSE /\ results' = [results EXCEPT !.toPrimary = res, !.status = "ok"]
         /\ push' = NoPush
         /\ aggregateStats' = Stats(Peer, syncHealthStats.value, results.toPeer, res)
         /\ pc' = "persist"

MissingSyncIds == IF push.dir = "toPeer" THEN syncIds.onlyInPrimary ELSE syncIds.onlyInPeer

WithMessages == IF push.dir = "toPeer" THEN Primary ELSE Peer

MissingMessages == IF push.dir = "toPeer" THEN Peer ELSE Primary

Reaches(replica) == replica = Primary \/ link

\* The outcomes of one call: a call to a peer whose client never became ready
\* fails, another call fails while the run has failures left.
CallFails(replica) ==
  IF ~Reaches(replica) THEN {TRUE}
  ELSE IF Budget > 0 THEN {FALSE, TRUE}
  ELSE {FALSE}

Fault(replica, failed) == IF failed /\ Reaches(replica) THEN 1 ELSE 0

\* tryPushingMissingMessages up to its loop: nothing to do for no missing ids,
\* otherwise getAllMessagesBySyncIds from the replica that has them.
FetchMissing ==
  /\ pc = "push"
  /\ IF MissingSyncIds = <<>>
       THEN /\ PushReturns(<<>>)
            /\ issued' = [issued EXCEPT !.pushes = Append(@, push.dir)]
            /\ UNCHANGED faults
       ELSE /\ issued' = [issued EXCEPT !.pushes = Append(@, push.dir), !.fetches = @ + 1]
            /\ \E failed \in CallFails(WithMessages) :
                 \E messages \in
                      {getAllMessagesBySyncIds(store[WithMessages], MissingSyncIds)} :
                    /\ faults' = faults + Fault(WithMessages, failed)
                    /\ IF failed
                         THEN /\ InvestigationFailed
                              /\ UNCHANGED push
                       ELSE IF messages = <<>>
                         THEN PushReturns(<<>>)
                       ELSE /\ push' = [push EXCEPT !.messages = messages, !.k = 1]
                            /\ pc' = "submit"
                            /\ UNCHANGED <<results, aggregateStats>>
  /\ UNCHANGED <<window, peers, idx, store, log, connVars, syncHealthStats, syncIds,
                 runs, passes, tvars>>

\* SubmitNext, were the loop to end at the first failed submission.
SubmitNext_StopsAtFailure ==
  /\ pc = "submit"
  /\ \E failed \in CallFails(MissingMessages) :
       \E submitted \in
            {submitMessage(store[MissingMessages], push.messages[push.k], ~failed)} :
        \E pushed \in {Append(push.results, submitted.result)} :
          /\ store' = [store EXCEPT ![MissingMessages] = submitted.held]
          /\ faults' = faults + Fault(MissingMessages, failed)
          /\ issued' = [issued EXCEPT !.submits =
                          Append(@, [to |-> push.dir, id |-> submitted.result.id,
                                     ok |-> submitted.result.ok])]
          /\ IF push.k < Len(push.messages) /\ submitted.result.ok
               THEN /\ push' = [push EXCEPT !.k = @ + 1, !.results = pushed]
                    /\ UNCHANGED <<pc, results, aggregateStats>>
               ELSE PushReturns(pushed)
  /\ UNCHANGED <<window, peers, idx, log, connVars, syncHealthStats, syncIds,
                 runs, passes, tvars>>

\* One turn of tryPushingMissingMessages' loop: submitMessage of the next
\* message, its result pushed; after the last one the function returns.
SubmitNext ==
  /\ pc = "submit"
  /\ \E failed \in CallFails(MissingMessages) :
       \E submitted \in
            {submitMessage(store[MissingMessages], push.messages[push.k], ~failed)} :
        \E pushed \in {Append(push.results, submitted.result)} :
          /\ store' = [store EXCEPT ![MissingMessages] = submitted.held]
          /\ faults' = faults + Fault(MissingMessages, failed)
          /\ issued' = [issued EXCEPT !.submits =
                          Append(@, [to |-> push.dir, id |-> submitted.result.id,
                                     ok |-> submitted.result.ok])]
          /\ IF push.k < Len(push.messages)
               THEN /\ push' = [push EXCEPT !.k = @ + 1, !.results = pushed]
                    /\ UNCHANGED <<pc, results, aggregateStats>>
               ELSE PushReturns(pushed)
  /\ UNCHANGED <<window, peers, idx, log, connVars, syncHealthStats, syncIds,
                 runs, passes, tvars>>

\* WriteSummary, were the write to replace the file's content.
WriteSummary_Overwrites ==
  /\ pc = "persist"
  /\ \/ /\ log' = <<serializedSummary(aggregateStats)>>
        /\ pc' = "close"
        /\ UNCHANGED <<idx, peerRpcClient, link, syncHealthStats, diffVars,
                       aggregateStats, issued, faults>>
     \/ /\ Budget > 0
        /\ faults' = faults + 1
        /\ EndPass
        /\ UNCHANGED log
  /\ UNCHANGED <<window, peers, store, primaryOpen, openClients, waiting, runs, passes,
                 tvars>>

\* appendFile of the serialized summary; when it raises, the catch block logs
\* and the loop goes on without close().
WriteSummary ==
  /\ pc = "persist"
  /\ \/ /\ log' = Append(log, serializedSummary(aggregateStats))
        /\ pc' = "close"
        /\ UNCHANGED <<idx, peerRpcClient, link, syncHealthStats, diffVars,
                       aggregateStats, issued, faults>>
     \/ /\ Budget > 0
        /\ faults' = faults + 1
        /\ EndPass
        /\ UNCHANGED log
  /\ UNCHANGED <<window, peers, store, primaryOpen, openClients, waiting, runs, passes,
                 tvars>>

\* peerRpcClient.close(), the end of the loop body.
ClosePeer ==
  /\ pc = "close"
  /\ openClients' = openClients \ {<<idx, peerRpcClient>>}
  /\ EndPass
  /\ UNCHANGED <<window, peers, store, log, primaryOpen, waiting, faults, runs, passes,
                 tvars>>

Driver ==
  \/ ParseTime \/ PrimaryReady \/ pickPeers \/ ClosePrimary \/ SkipPeer \/ Connect
  \/ MeasureHealth \/ PrimarySyncIds \/ PeerSyncIds \/ FetchMissing \/ SubmitNext
  \/ WriteSummary \/ ClosePeer

Next == Driver \/ ReadyCallback

Spec == Init /\ [][Next]_vars

\* The driver's steps other than the three awaits of a traversal.
Resumed ==
  \/ ParseTime \/ PrimaryReady \/ pickPeers \/ ClosePrimary \/ SkipPeer \/ Connect
  \/ FetchMissing \/ SubmitNext \/ WriteSummary \/ ClosePeer

\* The event loop runs the driver's continuation whenever it is ready, and every
\* remote call has a deadline: the awaits of computeSyncHealthMessageStats and of
\* the two computeSyncIdsInSpan return.
FairSpec ==
  /\ Spec
  /\ WF_vars(Resumed)
  /\ []<>(pc # "measure")
  /\ []<>(pc # "idsPrimary")
  /\ []<>(pc # "idsPeer")

(***************************************************************************)
(* investigateDiff on its own: up to MaxRuns runs over one window against  *)
(* one reachable peer, whatever the two replicas hold inside the window.   *)
(***************************************************************************)
MaxRuns == 2

RepairStores ==
  {st \in [Replicas -> SUBSET InsideIds] : \A p \in PeerNodes \ {"p1"} : st[p] = {}}

InitR ==
  /\ pc = "idsPrimary"
  /\ window \in SessionWindows
  /\ peers = <<"p1">> /\ idx = 1
  /\ store \in RepairStores
  /\ log = <<>>
  /\ primaryOpen = TRUE /\ openClients = {<<1, "insecure">>} /\ peerRpcClient = "insecure"
  /\ link = TRUE /\ waiting = {} /\ passes = <<1>> /\ faults = 0 /\ runs = <<>>
  /\ syncHealthStats =
       computeSyncHealthMessageStats(
         getNumMessagesInSpanOptimized(store[Primary], window[1], window[2], {}),
         getNumMessagesInSpanOptimized(store["p1"], window[1], window[2], {}))
  /\ syncIds = NoSyncIds /\ push = NoPush /\ results = NoResults
  /\ aggregateStats = NoAggregate /\ issued = NoIssued
  /\ trie = {} /\ span = [op |-> "none"]

\* What investigateDiff returned: err, or ok with the two result lists.
Returned ==
  [status |-> results.status,
   resultsPushingToPeer |-> IF results.status = "ok" THEN results.toPeer ELSE <<>>,
   resultsPushingToPrimary |-> IF results.status = "ok" THEN results.toPrimary ELSE <<>>]

\* investigateDiff has returned; it is called again over the same window.
Reinvestigate ==
  /\ pc = "persist"
  /\ Len(runs) < MaxRuns
  /\ runs' = Append(runs, [returned |-> Returned,
                           idsOnlyInPrimary |-> syncIds.onlyInPrimary,
                           idsOnlyInPeer |-> syncIds.onlyInPeer,
                           lost |-> syncIds.lost,
                           issued |-> issued])
  /\ syncIds' = NoSyncIds
  /\ push' = NoPush
  /\ results' = NoResults
  /\ aggregateStats' = NoAggregate
  /\ issued' = NoIssued
  /\ pc' = "idsPrimary"
  /\ UNCHANGED <<window, peers, idx, store, log, connVars, syncHealthStats, faults, passes,
                 tvars>>

NextR == PrimarySyncIds \/ PeerSyncIds \/ FetchMissing \/ SubmitNext \/ Reinvestigate

SpecRepair == InitR /\ [][NextR]_vars

(***************************************************************************)
(* uniqueSyncIds on its own: any two lists of at most MaxMsgs ids, with    *)
(* repeats, one id being a proper prefix of others.                        *)
(***************************************************************************)
DiffIds == InsideIds \cup {timestampToPaddedTimestampPrefix(MidTime)}

IdLists == UNION {[1 .. n -> DiffIds] : n \in 0 .. MaxMsgs}

InitD ==
  /\ SessionIdle
  /\ trie = {}
  /\ span \in {[op |-> "ids", primarySyncIds |-> P, peerSyncIds |-> Q] :
                 P \in IdLists, Q \in IdLists}

\* investigateDiff's two calls of uniqueSyncIds.
Diff ==
  /\ span.op = "ids"
  /\ span' = [op |-> "diff",
              primarySyncIds |-> span.primarySyncIds,
              peerSyncIds |-> span.peerSyncIds,
              idsOnlyInPrimary |-> uniqueSyncIds(span.primarySyncIds, span.peerSyncIds),
              idsOnlyInPeer |-> uniqueSyncIds(span.peerSyncIds, span.primarySyncIds)]
  /\ UNCHANGED <<trie, svars>>

NextD == Diff

SpecDiff == InitD /\ [][NextD]_vars

(***************************************************************************)
(* Range traversal on its own: any trie of at most MaxMsgs ids, any        *)
(* window, any choice of at most MaxFailures failing calls of each kind.   *)
(***************************************************************************)
TimeInputs == -1 .. MaxTime

Tries == {S \in SUBSET SyncIds : Cardinality(S) <= MaxMsgs}

NoSpan == [op |-> "none"]

InitT ==
  /\ trie \in Tries
  /\ span = NoSpan
  /\ SessionIdle

CountSpan ==
  /\ span.op = "none"
  /\ \E start \in TimeInputs, stop \in TimeInputs :
       \E F \in FailSets(FetchPoints(start, stop), MaxFailures) :
       span' = [op |-> "count", startTime |-> start, stopTime |-> stop,
                result |-> getNumMessagesInSpanOptimized(trie, start, stop, F)]
  /\ UNCHANGED <<trie, svars>>

CollectSpan ==
  /\ span.op = "none"
  /\ \E start \in TimeInputs, stop \in TimeInputs :
       \E F \in FailSets(FetchPoints(start, stop), MaxFailures),
          G \in FailSets(IdFetches, MaxFailures) :
       span' = [op |-> "collect", startTime |-> start, stopTime |-> stop,
                result |-> computeSyncIdsInSpan(trie, start, stop, F, G)]
  /\ UNCHANGED <<trie, svars>>

NextT == CountSpan \/ CollectSpan

SpecTraverse == InitT /\ [][NextT]_vars

(***************************************************************************)
(* What the window holds, by the numeric value of each id's time prefix.   *)
(***************************************************************************)
RECURSIVE TimeOfFrom(_, _)
TimeOfFrom(syncId, i) ==
  IF i > TimeLen THEN 0
  ELSE syncId[i] * Pow(Base, TimeLen - i) + TimeOfFrom(syncId, i + 1)

TimeOf(syncId) == TimeOfFrom(syncId, 1)

InWindow(S, start, stop) ==
  {s \in S : start <= TimeOf(s) /\ TimeOf(s) < stop}

NoDuplicates(seq) == \A i, j \in 1 .. Len(seq) : seq[i] = seq[j] => i = j

Traced == span.op # "none"

AllFetchesSucceeded == Traced /\ span.result.trace.failed = <<>>

SumsToWindow ==
  /\ SumNumMessages(span.result.trace.visited, 1)
       = Cardinality(InWindow(trie, span.startTime, span.stopTime))
  /\ NoDuplicates(span.result.trace.visited)

\* C1: for any trie and any window [start, stop), when every metadata fetch
\* succeeds, the visited nodes' counts sum to the number of messages whose time
\* lies in [start, stop), and no node is visited twice.
C1_VisitedCountsSumToWindow ==
  (AllFetchesSucceeded /\ span.result.ok) => SumsToWindow

\* C1, windows with start <= stop only: the same statement holds of the code.
C1_WellFormedWindow ==
  (AllFetchesSucceeded /\ span.result.ok /\ span.startTime <= span.stopTime)
    => SumsToWindow

\* C1, the case met: a window holding messages was traversed with every fetch
\* answered and more than one node visited.
C1_Witness ==
  /\ AllFetchesSucceeded /\ span.result.ok
  /\ span.startTime < span.stopTime
  /\ Len(span.result.trace.visited) >= 2
  /\ SumsToWindow

\* C2: when any metadata fetch of a traversal fails, at the root or deeper, the
\* traversal returns that error (and so do the span counter and the identifier
\* collector): it never returns ok.
C2_FetchFailurePropagates ==
  (Traced /\ span.result.trace.failed # <<>>) => ~span.result.ok

\* C2, the part that holds: a failed fetch of the common prefix or of the root
\* of the traversal is returned as the error.
C2_RootFailurePropagates ==
  (Traced /\ span.result.trace.failed # <<>> /\ span.result.trace.n <= 2)
    => ~span.result.ok

(***************************************************************************)
(* The diff of two id lists.                                               *)
(***************************************************************************)
Range(seq) == {seq[k] : k \in DOMAIN seq}

Diffed == span.op = "diff"

\* C3: uniqueSyncIds(P, Q) holds exactly the ids of P absent from Q and
\* uniqueSyncIds(Q, P) exactly those of Q absent from P: each output is disjoint
\* from the other list, each with the intersection gives back its list, and
\* both are empty when P and Q hold the same ids.
C3_UniqueSyncIdsIsSetDifference ==
  Diffed =>
    LET P == Range(span.primarySyncIds)
        Q == Range(span.peerSyncIds)
        onlyInPrimary == Range(span.idsOnlyInPrimary)
        onlyInPeer == Range(span.idsOnlyInPeer)
    IN /\ onlyInPrimary = P \ Q
       /\ onlyInPeer = Q \ P
       /\ onlyInPrimary \cap Q = {}
       /\ onlyInPeer \cap P = {}
       /\ onlyInPrimary \cup (P \cap Q) = P
       /\ onlyInPeer \cup (P \cap Q) = Q
       /\ P = Q => (span.idsOnlyInPrimary = <<>> /\ span.idsOnlyInPeer = <<>>)

\* C3, the case met: two lists that share an id and differ in ids of one time
\* prefix, each output non-empty.
C3_Witness ==
  /\ Diffed
  /\ Range(span.primarySyncIds) \cap Range(span.peerSyncIds) # {}
  /\ span.idsOnlyInPrimary # <<>>
  /\ span.idsOnlyInPeer # <<>>
  /\ \E a \in Range(span.idsOnlyInPrimary), b \in Range(span.peerSyncIds) :
       SubSeq(a, 1, TimeLen) = SubSeq(b, 1, TimeLen)

(***************************************************************************)
(* The repair of one pass.                                                 *)
(***************************************************************************)
Ids(res) == [k \in DOMAIN res |-> res[k].id]

ToPeerReturned == push.dir = "toPrimary" \/ results.status = "ok"

ToPrimaryReturned == results.status = "ok"

\* C4: when tryPushingMissingMessages returns ok, its results are one per
\* missing id, in the ids' order, whatever the submissions returned.
C4_OneOutcomePerMissingId ==
  /\ ToPeerReturned => Ids(results.toPeer) = syncIds.onlyInPrimary
  /\ ToPrimaryReturned => Ids(results.toPrimary) = syncIds.onlyInPeer

\* C4, the case met: two ids were missing on the peer, the first submission
\* failed and the second was made and accepted.
C4_Witness ==
  /\ ToPeerReturned
  /\ Len(results.toPeer) >= 2
  /\ ~results.toPeer[1].ok
  /\ results.toPeer[2].ok

OutcomesOf(dir) ==
  LET made == SelectSeq(issued.submits, LAMBDA s : s.to = dir)
  IN [k \in DOMAIN made |-> [id |-> made[k].id, ok |-> made[k].ok]]

\* C5: once investigateDiff has computed the two missing sets, it attempts both
\* directions, whatever the first one returns, and it returns the outcomes of
\* every submission made in either direction.
C5_DirectionsIndependent ==
  (pc = "persist" /\ issued.pushes # <<>>) =>
    /\ issued.pushes = <<"toPeer", "toPrimary">>
    /\ Returned.resultsPushingToPeer = OutcomesOf("toPeer")
    /\ Returned.resultsPushingToPrimary = OutcomesOf("toPrimary")

\* C6: no step takes a message from a replica, and a step that changes what a
\* replica holds is a submission adding the submitted message to the replica
\* that lacked it.
C6_RepairOnlyAdds ==
  [][/\ \A r \in Replicas : store[r] \subseteq store'[r]
     /\ store' # store =>
          /\ pc = "submit"
          /\ store' = [store EXCEPT ![MissingMessages] = @ \cup {push.messages[push.k]}]]_vars

\* C6, the case met: a submission was accepted, so a replica holds more than
\* it did.
C6_Witness ==
  /\ \E k \in DOMAIN issued.submits : issued.submits[k].ok
  /\ \E k \in DOMAIN issued.submits : ~issued.submits[k].ok

AllOk(res) == \A k \in DOMAIN res : res[k].ok

CleanRun(run) ==
  /\ run.returned.status = "ok"
  /\ AllOk(run.returned.resultsPushingToPeer)
  /\ AllOk(run.returned.resultsPushingToPrimary)

EmptyRun(run) ==
  /\ run.idsOnlyInPrimary = <<>>
  /\ run.idsOnlyInPeer = <<>>
  /\ run.issued.fetches = 0
  /\ run.issued.submits = <<>>
  /\ run.returned.resultsPushingToPeer = <<>>
  /\ run.returned.resultsPushingToPrimary = <<>>

\* C7: after a run of investigateDiff in which no fetch failed and that
\* returned ok with every submission accepted, a second run over the same window
\* that returns ok has computed two empty missing sets, issued no fetch and no
\* submission, and returned two empty lists.
C7_RepairIsIdempotent ==
  (/\ Len(runs) = 2 /\ CleanRun(runs[1]) /\ ~runs[1].lost
   /\ runs[2].returned.status = "ok")
    => EmptyRun(runs[2])

\* C7, the part that holds: the same, when no fetch of the second run failed
\* either.
C7_IdempotentWhenNothingLost ==
  (/\ Len(runs) = 2 /\ CleanRun(runs[1]) /\ runs[2].returned.status = "ok"
   /\ ~runs[1].lost /\ ~runs[2].lost)
    => EmptyRun(runs[2])

(***************************************************************************)
(* The session's log and its passes.                                       *)
(***************************************************************************)
RecordsOf(peer) == {k \in DOMAIN log : log[k].peer = peer}

NoOutcomes(record) ==
  /\ record.numSuccessToPeer = 0 /\ record.numErrorToPeer = 0
  /\ record.numSuccessToPrimary = 0 /\ record.numErrorToPrimary = 0

\* C8: when a pass measured its peer with a non-zero diff and investigateDiff
\* returned an error, the pass reaches close() with exactly one record of the
\* peer in the log, the last one, carrying the measured counts and no outcomes.
C8_RecordAfterFailedInvestigation ==
  (pc = "close" /\ results.status = "err") =>
    /\ syncHealthStats.ok
    /\ computeDiff(syncHealthStats.value) # 0
    /\ Cardinality(RecordsOf(Peer)) = 1
    /\ log[Len(log)].peer = Peer
    /\ log[Len(log)].primaryMessageCount = syncHealthStats.value.primaryNumMessages
    /\ log[Len(log)].peerMessageCount = syncHealthStats.value.peerNumMessages
    /\ NoOutcomes(log[Len(log)])

\* C8, the case met: the record of a pass whose investigation failed is in the
\* log.
C8_Witness ==
  /\ pc = "close"
  /\ results.status = "err"
  /\ log # <<>>
  /\ log[Len(log)].peer = Peer
  /\ log[Len(log)].primaryMessageCount # log[Len(log)].peerMessageCount

DefinedPositions ==
  SelectSeq([i \in 1 .. Len(peers) |-> i], LAMBDA i : peers[i] # Undefined)

\* C9: a pass whose peer's client never became ready fails its measurement; a
\* pass whose measurement failed leaves no record of its peer; a pass whose
\* measurement succeeded reaches close() with one record of its peer; and the
\* loop ends with one pass made for every sampled peer that has an address.
C9_FailureIsolation ==
  /\ (pc = "close" /\ ~link) => ~syncHealthStats.ok
  /\ (pc = "close" /\ ~syncHealthStats.ok) => RecordsOf(Peer) = {}
  /\ (pc = "close" /\ syncHealthStats.ok) =>
       (Cardinality(RecordsOf(Peer)) = 1 /\ log[Len(log)].peer = Peer)
  /\ pc = "done" => passes = DefinedPositions

\* C9, the case met: of two sampled peers the first one's client never became
\* ready, and the second one has its record.
C9_Witness ==
  /\ pc = "close"
  /\ idx = 2
  /\ passes = <<1, 2>>
  /\ \E w \in waiting : w = <<1, TRUE>>
  /\ Len(log) = 1
  /\ log[1].peer = Peer

C11_SecureTransportFirst ==
  [][\A c \in openClients' \ openClients :
       c[2] = "insecure" => <<c[1], "ssl">> \in openClients]_vars

\* C12: every client created for a peer is closed once that peer's pass is
\* over, whichever way the pass ended.
C12_ClientsClosedAfterPass ==
  \A c \in openClients : c[1] >= idx

\* C12, the part that holds: a pass that reaches close() closes the client its
\* variable refers to.
C12_CloseReleasesCurrentClient ==
  [][(pc = "close" /\ pc' = "loop") => <<idx, peerRpcClient>> \notin openClients']_vars

(***************************************************************************)
(* The health log and the numbers written to it.                           *)
(***************************************************************************)
\* C13: every step leaves the log as it is or appends to it the one summary of
\* the pass under way, whole, and the log never holds two records of one peer.
C13_LogOnlyGrows ==
  /\ [][log' # log =>
          /\ pc = "persist"
          /\ log' = Append(log, serializedSummary(aggregateStats))
          /\ log'[Len(log')].peer = Peer]_vars
  /\ [](\A p \in PeerNodes : Cardinality(RecordsOf(p)) <= 1)

\* C13, the case met: the second record of a session was appended after the
\* first.
C13_Witness ==
  /\ Len(log) = 2
  /\ log[1].peer = peers[1]
  /\ log[2].peer = peers[2]
  /\ pc = "close"

Written == pc = "close" /\ aggregateStats # NoAggregate

\* C14: when the primary's count is zero, the diffPercentage computed for the
\* record is not a number: no Infinity, no ratio.
C14_ZeroPrimaryNotDivided ==
  (Written /\ aggregateStats.syncHealthMessageStats.primaryNumMessages = 0)
    => computeDiffPercentage(aggregateStats.syncHealthMessageStats).kind = "NaN"

\* C14, the part that holds: the record written for a zero primary count
\* carries null as its diffPercentage.
C14_WrittenAsNull ==
  \A k \in DOMAIN log :
    log[k].primaryMessageCount = 0 => log[k].diffPercentage.kind = "null"

(***************************************************************************)
(* The calls of a traversal and of a session.                              *)
(***************************************************************************)
\* C15: within one count or collection no prefix has its metadata fetched
\* twice.
C15_AtMostOneFetchPerPrefix ==
  Traced => NoDuplicates(span.result.trace.fetched)

\* C15, the part that holds: after getPrefixInfo's fetch no prefix is fetched
\* twice, and nothing is fetched after a failed fetch of the common prefix.
C15_NoRefetchInTraversal ==
  (Traced /\ span.result.trace.fetched # <<>>) =>
    /\ NoDuplicates(Tail(span.result.trace.fetched))
    /\ (~span.result.ok /\ span.result.trace.failed # <<>>
          /\ span.result.trace.failed[1] = span.result.trace.fetched[1])
         => Len(span.result.trace.fetched) <= 2

\* C16: a readiness wait still pending belongs to the pass under way, and it is
\* over before the pass makes its remote calls.
C16_StrictlySequential ==
  /\ \A w \in waiting : w[1] = passes[Len(passes)]
  /\ pc \in {"idsPrimary", "idsPeer", "push", "submit", "persist", "close"}
       => \A w \in waiting : w[1] # idx

(***************************************************************************)
(* What a pass does with the measured counts.                              *)
(***************************************************************************)
ZeroDiff == syncHealthStats.ok /\ computeDiff(syncHealthStats.value) = 0

\* C17: a pass that measured equal counts goes straight to the write: it makes
\* no identifier fetch, no record fetch and no submission, changes no replica,
\* and the record it writes is its peer's and has no outcomes.
C17_NoInvestigationOnZeroDiff ==
  /\ [](ZeroDiff =>
          /\ pc \in {"persist", "close"}
          /\ syncIds = NoSyncIds /\ push = NoPush /\ results = NoResults
          /\ issued = NoIssued
          /\ aggregateStats = Stats(Peer, syncHealthStats.value, <<>>, <<>>))
  /\ [][(ZeroDiff \/ ZeroDiff') =>
          /\ store' = store
          /\ log' # log =>
               /\ log' = Append(log, serializedSummary(aggregateStats))
               /\ log'[Len(log')].peer = Peer
               /\ NoOutcomes(log'[Len(log')])]_vars

\* C17, the case met: a pass measured equal, non-zero counts and its record is
\* written.
C17_Witness ==
  /\ pc = "close"
  /\ ZeroDiff
  /\ syncHealthStats.value.primaryNumMessages > 0
  /\ log # <<>>
  /\ log[Len(log)].peer = Peer
  /\ log[Len(log)].diff = 0

HeldInWindow(replica) == InWindow(store[replica], startTime, stopTime)

AllCallsSucceeded == link /\ faults = 0 /\ syncHealthStats.ok

\* C18: when a pass in which every remote call and every submission succeeded
\* reaches close(), the primary and the peer hold the same ids in the window.
C18_PassConverges ==
  (pc = "close" /\ AllCallsSucceeded) => HeldInWindow(Primary) = HeldInWindow(Peer)

\* C18, the part that holds: the same, for a pass that measured different
\* counts.
C18_ConvergesWhenCountsDiffer ==
  (pc = "close" /\ AllCallsSucceeded /\ computeDiff(syncHealthStats.value) # 0)
    => HeldInWindow(Primary) = HeldInWindow(Peer)

\* C19: the Stats made for the record of a pass hold the outcome of every
\* submission of that pass, to the peer and to the primary.
C19_RecordAccountsForSubmissions ==
  (pc = "persist" /\ computeDiff(syncHealthStats.value) # 0) =>
    /\ aggregateStats.resultsUploadingToPeer = OutcomesOf("toPeer")
    /\ aggregateStats.resultsUploadingToPrimary = OutcomesOf("toPrimary")

\* C19, the part that holds: the same, when investigateDiff returned ok.
C19_AccountedWhenInvestigationReturned ==
  (pc = "persist" /\ results.status = "ok") =>
    /\ aggregateStats.resultsUploadingToPeer = OutcomesOf("toPeer")
    /\ aggregateStats.resultsUploadingToPrimary = OutcomesOf("toPrimary")

VisitedIds ==
  UNION {Under(trie, span.result.trace.visited[k].prefix) :
           k \in DOMAIN span.result.trace.visited}

\* C20: when computeSyncIdsInSpan returns ok, the ids it returns are those
\* under the visited nodes, all of them.
C20_CollectionIsComplete ==
  (span.op = "collect" /\ span.result.ok) => Range(span.result.value) = VisitedIds

\* C20, the part that holds: the same, when no getAllSyncIdsByPrefix failed.
C20_CompleteWhenIdFetchesSucceed ==
  (span.op = "collect" /\ span.result.ok /\ span.result.idFailures = 0)
    => Range(span.result.value) = VisitedIds

NothingVisited ==
  /\ span.result.trace.visited = <<>>
  /\ span.op = "count" => span.result.value = 0
  /\ span.op = "collect" => span.result.value = <<>>

\* C21: for a window with stop <= start, when every metadata fetch succeeds,
\* the visitor is never invoked: the count is 0 and no id is collected.
C21_EmptyWindowVisitsNothing ==
  (AllFetchesSucceeded /\ span.result.ok /\ span.stopTime <= span.startTime)
    => NothingVisited

\* C21, the part that holds: the same, for a window with stop = start.
C21_EqualBoundsVisitNothing ==
  (AllFetchesSucceeded /\ span.result.ok /\ span.stopTime = span.startTime)
    => NothingVisited

====
